---------------------------- MODULE Spec2Model ----------------------------
(***************************************************************************)
(* A model of src/app.py, the "Automated Tour Diary Generator": one click *)
(* of "Generate Word Diary" runs a linear scan over the uploaded files    *)
(* (extract_doc_data per file, then the accumulation of trips, map        *)
(* records and user details), the "Smart Merge" of map distances into the *)
(* trips, the sort by departure date, and the rendering of the document.  *)
(*                                                                         *)
(* Python values are tagged records [t |-> kind, v |-> payload]; text is a *)
(* sequence of fragments, and the fragments that parsing looks at (dates,  *)
(* distances) are single characters.                                       *)
(***************************************************************************)
EXTENDS Integers, Sequences, FiniteSets, TLC

(* ------------------------------ bounds -------------------------------- *)
\* the most files uploaded in one run
MaxFiles == 3
\* the most trips accumulated in one run
MaxTrips == 3

(* --------------------------- python values ---------------------------- *)
Null == [t |-> "null", v |-> <<>>]
Str(s) == [t |-> "str", v |-> s]
Num(n) == [t |-> "int", v |-> n]
\* the float n.0
Flt(n) == [t |-> "float", v |-> n]
List(q) == [t |-> "list", v |-> q]
Dict(f) == [t |-> "dict", v |-> f]
\* a field an extraction left out: never a value of a dict, only a choice
\* made when a dict is built
Absent == [t |-> "absent", v |-> <<>>]

\* the dict with the fields of record r that are not Absent
DictOf(r) == [k \in {f \in DOMAIN r : r[f].t # "absent"} |-> r[k]]

\* bool(x)
Truthy(x) ==
    CASE x.t = "null" -> FALSE
      [] x.t = "str" -> x.v # <<>>
      [] x.t = "int" -> x.v # 0
      [] x.t = "float" -> x.v # 0
      [] x.t = "list" -> x.v # <<>>
      [] x.t = "dict" -> DOMAIN x.v # {}
      [] OTHER -> FALSE

\* a == b on python values
PyEq(a, b) == a.t = b.t /\ a.v = b.v

\* d.get(k, dflt) on the mapping d of a dict
Get(d, k, dflt) == IF k \in DOMAIN d THEN d[k] ELSE dflt

\* d[k] = x
Put(d, k, x) == [j \in DOMAIN d \cup {k} |-> IF j = k THEN x ELSE d[j]]

DigitChars == <<"0", "1", "2", "3", "4", "5", "6", "7", "8", "9">>

RECURSIVE IntToChars(_)
\* str(n) of an int n >= 0
IntToChars(n) ==
    IF n < 10 THEN <<DigitChars[n + 1]>>
    ELSE IntToChars(n \div 10) \o <<DigitChars[(n % 10) + 1]>>

\* str(x): the text python shows for x
PyStr(x) ==
    CASE x.t = "null" -> <<"N", "o", "n", "e">>
      [] x.t = "str" -> x.v
      [] x.t = "int" -> IntToChars(x.v)
      [] x.t = "float" -> IntToChars(x.v) \o <<".", "0">>
      [] OTHER -> <<"<object>">>

RECURSIVE LStrip(_)
LStrip(s) == IF s # <<>> /\ Head(s) = " " THEN LStrip(Tail(s)) ELSE s

RECURSIVE RStrip(_)
RStrip(s) ==
    IF s # <<>> /\ s[Len(s)] = " " THEN RStrip(SubSeq(s, 1, Len(s) - 1)) ELSE s

\* s.strip()
Strip(s) == RStrip(LStrip(s))

(* ------------------- datetime.strptime(s, "%d/%m/%Y") ------------------ *)
IsDigit(c) == \E i \in 1..10 : DigitChars[i] = c

DigitVal(c) == (CHOOSE i \in 1..10 : DigitChars[i] = c) - 1

RECURSIVE CharsToInt(_)
CharsToInt(s) ==
    IF s = <<>> THEN 0
    ELSE 10 * CharsToInt(SubSeq(s, 1, Len(s) - 1)) + DigitVal(s[Len(s)])

AllDigits(s) == s # <<>> /\ \A i \in 1..Len(s) : IsDigit(s[i])

\* the positions of "/" in s
Slashes(s) == {i \in 1..Len(s) : s[i] = "/"}

IsLeap(y) == (y % 4 = 0 /\ y % 100 # 0) \/ y % 400 = 0

DaysIn(m, y) ==
    IF m = 2 THEN (IF IsLeap(y) THEN 29 ELSE 28)
    ELSE IF m \in {4, 6, 9, 11} THEN 30 ELSE 31

\* the parse of text s: [ok |-> TRUE, val |-> <<year, month, day>>], or
\* ok = FALSE where strptime raises ValueError
Strptime(s) ==
    LET sl == Slashes(s)
        bad == [ok |-> FALSE, val |-> <<0, 0, 0>>]
    IN  IF Cardinality(sl) # 2 THEN bad
        ELSE LET i1 == CHOOSE i \in sl : \A j \in sl : i <= j
                 i2 == CHOOSE i \in sl : \A j \in sl : j <= i
                 ds == SubSeq(s, 1, i1 - 1)
                 ms == SubSeq(s, i1 + 1, i2 - 1)
                 ys == SubSeq(s, i2 + 1, Len(s))
             IN  IF ~(AllDigits(ds) /\ AllDigits(ms) /\ AllDigits(ys)) THEN bad
                 ELSE IF ~(Len(ds) <= 2 /\ Len(ms) <= 2 /\ Len(ys) = 4) THEN bad
                 ELSE LET d == CharsToInt(ds)
                          m == CharsToInt(ms)
                          y == CharsToInt(ys)
                      IN  IF m \in 1..12 /\ y >= 1 /\ d >= 1 /\ d <= DaysIn(m, y)
                          THEN [ok |-> TRUE, val |-> <<y, m, d>>]
                          ELSE bad

\* datetime.min
DatetimeMin == <<1, 1, 1>>

\* a < b on (year, month, day)
DateLess(a, b) ==
    \/ a[1] < b[1]
    \/ a[1] = b[1] /\ a[2] < b[2]
    \/ a[1] = b[1] /\ a[2] = b[2] /\ a[3] < b[3]

(* ------------------------ the extraction loop -------------------------- *)
\* the text fragments the code compares against or falls back to
T_salary == Str(<<"salary">>)
T_tour_approval == Str(<<"tour_approval">>)
T_map_data == Str(<<"map_data">>)
Unknown == Str(<<"Unknown">>)
Zero == Str(<<"0">>)

\* user_info after "if u.get(k): user_info[k] = u[k]"
SetIfTruthy(info, u, k) ==
    IF Truthy(Get(u, k, Null)) THEN Put(info, k, u[k]) ELSE info

\* user_info after the capture of the user details u of a tour approval
CaptureUser(info, u) ==
    SetIfTruthy(SetIfTruthy(SetIfTruthy(info, u, "name"), u, "designation"),
                u, "budget_head")

\* a tag that the data does not decide
SystemNoAlwaysUnknown(d) == Unknown

\* data.get('system_no', 'Unknown')
SystemNoOf(d) == Get(d, "system_no", Unknown)

\* the trip object appended for element t of the trips of data d: the k-th
\* object made from uploaded file f, with t['system_no'] set
TagTrip(d, t, f, k) ==
    [oid |-> <<f, k>>, d |-> Put(t.v, "system_no", SystemNoOf(d))]

\* the elements "for t in trips" visits: those of a list, the dict itself
\* as a single trip, nothing for any other value
TripItems(d) ==
    LET trips == Get(d, "trips", List(<<>>))
    IN  IF trips.t = "list" THEN trips.v
        ELSE IF trips.t = "dict" THEN <<trips>>
        ELSE <<>>

\* how many elements are visited before t['system_no'] = ... raises
\* TypeError on an element that is no dict (all of them when none raises)
RECURSIVE DictPrefix(_)
DictPrefix(items) ==
    IF items = <<>> \/ Head(items).t # "dict" THEN 0
    ELSE 1 + DictPrefix(Tail(items))

\* the trip objects appended from tour approval d of file f
NewTrips(d, f) ==
    LET items == TripItems(d)
    IN  [k \in 1..DictPrefix(items) |-> TagTrip(d, items[k], f, k)]

\* u.get(...) raises AttributeError: 'user_details' is there and no dict
UserDetailsRaises(d) ==
    "user_details" \in DOMAIN d /\ d["user_details"].t # "dict"

\* t['system_no'] = ... raises TypeError on some element of the trips
TripsRaise(d) == DictPrefix(TripItems(d)) < Len(TripItems(d))

(* ----------------------------- smart merge ----------------------------- *)
\* a test that takes every distance for missing
AlwaysMissing(d) == TRUE

\* curr_dist in ['0', '', 'None'], curr_dist the stripped text of the
\* trip's distance ('0' when it has none)
MissingDistance(d) ==
    LET curr_dist == Strip(PyStr(Get(d, "distance_km", Zero)))
    IN  curr_dist \in {<<"0">>, <<>>, <<"N", "o", "n", "e">>}

\* one round of the merge loop on trip object tr
MergeOne(tr, maps) ==
    IF MissingDistance(tr.d) /\ maps # <<>>
    THEN [tr EXCEPT !.d = Put(tr.d, "distance_km",
                              Get(maps[1], "distance_km", Zero))]
    ELSE tr

\* the trip list after the merge loop
SmartMerge(entries, maps) ==
    [j \in 1..Len(entries) |-> MergeOne(entries[j], maps)]

(* ----------------------------- sort by date ---------------------------- *)
\* a key function that takes a date it cannot parse for the least date
LenientSortKey(d) ==
    LET x == Get(d, "departure_date", Null)
    IN  IF ~Truthy(x) \/ x.t # "str" \/ ~Strptime(x.v).ok
        THEN [ok |-> TRUE, val |-> DatetimeMin]
        ELSE Strptime(x.v)

\* the sort key of trip dict d: [ok |-> FALSE] where the key function raises
\* (strptime of a value that is no text, or of text that is no date)
SortKey(d) ==
    LET x == Get(d, "departure_date", Null)
    IN  IF ~Truthy(x) THEN [ok |-> TRUE, val |-> DatetimeMin]
        ELSE IF x.t # "str" THEN [ok |-> FALSE, val |-> <<0, 0, 0>>]
        ELSE Strptime(x.v)

\* a place ahead of the elements of equal key
InsertPosBeforeEqual(s, x) ==
    Cardinality({j \in 1..Len(s) :
                    DateLess(SortKey(s[j].d).val, SortKey(x.d).val)}) + 1

\* where x goes in the sorted list s: after every element not greater
InsertPos(s, x) ==
    Cardinality({j \in 1..Len(s) :
                    ~DateLess(SortKey(x.d).val, SortKey(s[j].d).val)}) + 1

\* x inserted into the sorted list s, behind the elements of equal key
Insert(s, x) ==
    LET p == InsertPos(s, x)
    IN  SubSeq(s, 1, p - 1) \o <<x>> \o SubSeq(s, p, Len(s))

RECURSIVE StableSort(_)
\* list.sort(key = ...): a stable sort, so its result is the one stable
\* ascending arrangement whichever way it is computed
StableSort(s) ==
    IF s = <<>> THEN <<>>
    ELSE Insert(StableSort(SubSeq(s, 1, Len(s) - 1)), s[Len(s)])

\* the key function raises on some trip: list.sort computes every key
\* before it moves anything, so the list is left as it was
SortRaises(entries) == \E j \in 1..Len(entries) : ~SortKey(entries[j].d).ok

\* the trip list after "try: tour_entries.sort(...) except: pass"
SortByDate(entries) ==
    IF SortRaises(entries) THEN entries ELSE StableSort(entries)

(* ------------------------- generate_word_doc --------------------------- *)
\* the least and the greatest of a non-empty set of dates
MinDate(S) == CHOOSE a \in S : \A b \in S : ~DateLess(b, a)
MaxDate(S) == CHOOSE a \in S : \A b \in S : ~DateLess(a, b)

\* the "Month: ..." line as the <<year, month>> pairs it names: none when
\* no trip has a date or a date does not parse, one for a single month, two
\* for a range
MonthStr(tour_data) ==
    LET dated == {j \in 1..Len(tour_data) :
                     Truthy(Get(tour_data[j].d, "departure_date", Null))}
        keys == {SortKey(tour_data[j].d) : j \in dated}
    IN  IF dated = {} \/ \E k \in keys : ~k.ok THEN <<>>
        ELSE LET lo == MinDate({k.val : k \in keys})
                 hi == MaxDate({k.val : k \in keys})
             IN  IF lo[2] = hi[2] /\ lo[1] = hi[1]
                 THEN << <<lo[1], lo[2]>> >>
                 ELSE << <<lo[1], lo[2]>>, <<hi[1], hi[2]>> >>

\* the text of a field of the header block
HeaderField(user_details, k, dflt) == PyStr(Get(user_details, k, Str(<<dflt>>)))

\* the text of a cell of a trip's row
Cell(d, k, dflt) == PyStr(Get(d, k, Str(dflt)))

\* the table row of trip dict d; the last cell holds the purpose and the
\* system number
Row(d) ==
    [departure_place |-> Cell(d, "departure_place", <<"NAU, Navsari">>),
     departure_date |-> Cell(d, "departure_date", <<>>),
     departure_time |-> Cell(d, "departure_time", <<>>),
     arrival_place |-> Cell(d, "arrival_place", <<>>),
     arrival_date |-> Cell(d, "arrival_date", <<>>),
     arrival_time |-> Cell(d, "arrival_time", <<>>),
     mode_of_journey |-> Cell(d, "mode_of_journey", <<"Private Vehicle">>),
     distance_km |-> Cell(d, "distance_km", <<>>),
     purpose |-> Cell(d, "purpose", <<>>),
     system_no |-> Cell(d, "system_no", <<>>)]

\* the document: the header block, one row per trip, the signature
GenerateWordDoc(tour_data, user_details) ==
    [designation |-> HeaderField(user_details, "designation", "Associate Professor"),
     name |-> HeaderField(user_details, "name", "Vaibhav Kumar Kanubhai Chaudhari"),
     basic_pay |-> HeaderField(user_details, "basic_pay", "N/A"),
     budget_head |-> HeaderField(user_details, "budget_head", "303/2092"),
     month_str |-> MonthStr(tour_data),
     rows |-> [j \in 1..Len(tour_data) |-> Row(tour_data[j].d)],
     sign_name |-> HeaderField(user_details, "name", "Vaibhav Kumar Kanubhai Chaudhari"),
     sign_designation |-> HeaderField(user_details, "designation", "Associate Professor")]

(* ------------------------------ the state ------------------------------ *)
VARIABLES
    pc,             \* where the run is
    api_key,        \* GEMINI_API_KEY, a text
    nfiles,         \* len(uploaded_files)
    idx,            \* the 1-based place of the file the loop is at
    tmp_files,      \* the temporary files on disk, named by their file's place
    data,           \* what extract_doc_data returned for the current file
    tour_entries,   \* the list of trip objects [oid, d]
    map_entries,    \* the list of map dicts
    user_info,      \* the employee dict
    ui,             \* the messages shown, in order
    doc,            \* <<>>, or <<the document offered for download>>
    approvals       \* history: per tour approval handled, its file, the
                    \* system_no of its data (Absent when it has none) and
                    \* how many trips it brought

vars == <<pc, api_key, nfiles, idx, tmp_files, data, tour_entries,
          map_entries, user_info, ui, doc, approvals>>

\* a reply that is no JSON
Invalid == [t |-> "invalid", v |-> <<>>]

\* how a reply is wrapped: bare JSON, inside ```json ... ```, inside ``` ... ```
Fences == {"none", "json", "plain"}

Msg(kind, f) == [kind |-> kind, file |-> f]

Init ==
    /\ pc = "idle"
    /\ api_key = <<>>
    /\ nfiles = 0
    /\ idx = 0
    /\ tmp_files = {}
    /\ data = Null
    /\ tour_entries = <<>>
    /\ map_entries = <<>>
    /\ user_info = <<>>
    /\ ui = <<>>
    /\ doc = <<>>
    /\ approvals = {}

(* --------------------------- extract_doc_data -------------------------- *)
\* how many trips reply body b would add to the list
ReplyTrips(b) ==
    IF b.t = "dict" /\ PyEq(Get(b.v, "type", Null), T_tour_approval)
    THEN Len(TripItems(b.v))
    ELSE 0

\* json.loads of the reply once a leading ```json fence is taken off:
\* [ok |-> FALSE] where it raises
JsonLoads(reply) ==
    IF reply.fence = "plain" \/ reply.body.t = "invalid"
    THEN [ok |-> FALSE, val |-> Null]
    ELSE [ok |-> TRUE, val |-> reply.body]

\* a finally block that removes nothing
RemoveTempLeak(files, f) == files

\* os.remove(tmp_path)
RemoveTemp(files, f) == files \ {f}

\* the click on "Generate Word Diary" with files uploaded: without a key
\* the run ends on an error message
Click ==
    /\ pc = "idle"
    /\ \E key \in {<<>>, <<"k">>}, n \in 1..MaxFiles :
          /\ api_key' = key
          /\ nfiles' = n
          /\ \/ key = <<>> /\ pc' = "done" /\ idx' = idx
                /\ ui' = Append(ui, Msg("key_error", 0))
             \/ key # <<>> /\ pc' = "loop" /\ idx' = 1 /\ ui' = ui
    /\ UNCHANGED <<tmp_files, data, tour_entries, map_entries,
                   user_info, doc, approvals>>

\* extract_doc_data is entered for the next file: its bytes go to a
\* temporary file that stays after the "with" block
WriteTemp ==
    /\ pc = "loop" /\ idx <= nfiles
    /\ tmp_files' = tmp_files \cup {idx}
    /\ pc' = "upload"
    /\ UNCHANGED <<api_key, nfiles, idx, data, tour_entries,
                   map_entries, user_info, ui, doc, approvals>>

\* genai.upload_file: it returns or it raises
UploadFile ==
    /\ pc = "upload"
    /\ pc' \in {"generate", "except"}
    /\ UNCHANGED <<api_key, nfiles, idx, tmp_files, data, tour_entries,
                   map_entries, user_info, ui, doc, approvals>>

\* model.generate_content, response.text and json.loads: a reply out of
\* Replies in one of the wrappings, returned when it loads; the jump to the
\* except block when the call raises or the text does not load
GenerateContent(Replies) ==
    /\ pc = "generate"
    /\ \/ \E b \in Replies, f \in Fences :
             /\ Len(tour_entries) + ReplyTrips(b) <= MaxTrips
             /\ \/ /\ JsonLoads([fence |-> f, body |-> b]).ok
                   /\ data' = JsonLoads([fence |-> f, body |-> b]).val
                   /\ pc' = "finally"
                \/ /\ ~JsonLoads([fence |-> f, body |-> b]).ok
                   /\ data' = data
                   /\ pc' = "except"
       \/ pc' = "except" /\ data' = data
    /\ UNCHANGED <<api_key, nfiles, idx, tmp_files, tour_entries,
                   map_entries, user_info, ui, doc, approvals>>

\* except Exception: st.error(...); return None
Except ==
    /\ pc = "except"
    /\ ui' = Append(ui, Msg("error", idx))
    /\ data' = Null
    /\ pc' = "finally"
    /\ UNCHANGED <<api_key, nfiles, idx, tmp_files, tour_entries,
                   map_entries, user_info, doc, approvals>>

\* finally: os.remove(tmp_path), and the call returns
Finally ==
    /\ pc = "finally"
    /\ tmp_files' = RemoveTemp(tmp_files, idx)
    /\ pc' = "handle"
    /\ UNCHANGED <<api_key, nfiles, idx, data, tour_entries,
                   map_entries, user_info, ui, doc, approvals>>

(* ---------------------- the body of the file loop ---------------------- *)
\* on to the next file; data is assigned anew before it is read again
NextFile == idx' = idx + 1 /\ pc' = "loop" /\ data' = Null

\* an exception nothing catches ends the run: the page shows it
Raise ==
    /\ pc' = "aborted" /\ idx' = idx /\ data' = data
    /\ ui' = Append(ui, Msg("exception", idx))

\* "if data:" and the branches on data.get('type')
HandleData ==
    /\ pc = "handle"
    /\ \/ /\ ~Truthy(data)
          /\ NextFile
          /\ UNCHANGED <<tour_entries, map_entries, user_info, ui, approvals>>
       \/ /\ Truthy(data) /\ data.t # "dict"
          /\ Raise
          /\ UNCHANGED <<tour_entries, map_entries, user_info, approvals>>
       \/ /\ Truthy(data) /\ data.t = "dict"
          /\ PyEq(Get(data.v, "type", Null), T_salary)
          /\ user_info' = Put(user_info, "basic_pay", Get(data.v, "basic_pay", Null))
          /\ NextFile
          /\ UNCHANGED <<tour_entries, map_entries, ui, approvals>>
       \/ /\ Truthy(data) /\ data.t = "dict"
          /\ PyEq(Get(data.v, "type", Null), T_tour_approval)
          /\ UserDetailsRaises(data.v)
          /\ Raise
          /\ UNCHANGED <<tour_entries, map_entries, user_info, approvals>>
       \/ /\ Truthy(data) /\ data.t = "dict"
          /\ PyEq(Get(data.v, "type", Null), T_tour_approval)
          /\ ~UserDetailsRaises(data.v)
          /\ user_info' = IF "user_details" \in DOMAIN data.v
                          THEN CaptureUser(user_info, data.v["user_details"].v)
                          ELSE user_info
          /\ tour_entries' = tour_entries \o NewTrips(data.v, idx)
          /\ approvals' = approvals \cup
                {[file |-> idx, sys |-> Get(data.v, "system_no", Absent),
                  n |-> Len(TripItems(data.v))]}
          /\ IF TripsRaise(data.v) THEN Raise ELSE NextFile /\ ui' = ui
          /\ UNCHANGED map_entries
       \/ /\ Truthy(data) /\ data.t = "dict"
          /\ PyEq(Get(data.v, "type", Null), T_map_data)
          /\ map_entries' = Append(map_entries, data.v)
          /\ NextFile
          /\ UNCHANGED <<tour_entries, user_info, ui, approvals>>
       \/ /\ Truthy(data) /\ data.t = "dict"
          /\ ~PyEq(Get(data.v, "type", Null), T_salary)
          /\ ~PyEq(Get(data.v, "type", Null), T_tour_approval)
          /\ ~PyEq(Get(data.v, "type", Null), T_map_data)
          /\ NextFile
          /\ UNCHANGED <<tour_entries, map_entries, user_info, ui, approvals>>
    /\ UNCHANGED <<api_key, nfiles, tmp_files, doc>>

(* ------------------------ merge, sort and output ----------------------- *)
\* the whole merge loop, once every file is handled
MergeStep ==
    /\ pc = "loop" /\ idx > nfiles
    /\ tour_entries' = SmartMerge(tour_entries, map_entries)
    /\ pc' = "sort"
    /\ UNCHANGED <<api_key, nfiles, idx, tmp_files, data, map_entries,
                   user_info, ui, doc, approvals>>

\* try: tour_entries.sort(...) except: pass
SortStep ==
    /\ pc = "sort"
    /\ tour_entries' = SortByDate(tour_entries)
    /\ pc' = "emit"
    /\ UNCHANGED <<api_key, nfiles, idx, tmp_files, data, map_entries,
                   user_info, ui, doc, approvals>>

\* "if tour_entries:" the document and its download button, else a warning
Emit ==
    /\ pc = "emit"
    /\ \/ /\ tour_entries # <<>>
          /\ doc' = <<GenerateWordDoc(tour_entries, user_info)>>
          /\ ui' = Append(ui, Msg("success", 0))
       \/ /\ tour_entries = <<>>
          /\ doc' = doc
          /\ ui' = Append(ui, Msg("warning", 0))
    /\ pc' = "done"
    /\ UNCHANGED <<api_key, nfiles, idx, tmp_files, data, tour_entries,
                   map_entries, user_info, approvals>>

\* every step but the model's reply
Steps ==
    \/ Click \/ WriteTemp \/ UploadFile \/ Except \/ Finally
    \/ HandleData \/ MergeStep \/ SortStep \/ Emit

(* ------------------------- the replies drawn --------------------------- *)
TourApproval(sys, user, trips) ==
    Dict(DictOf([type |-> T_tour_approval, system_no |-> sys,
                 user_details |-> user, trips |-> trips]))
Salary(pay) == Dict(DictOf([type |-> T_salary, basic_pay |-> pay]))
MapData(dist) == Dict(DictOf([type |-> T_map_data, distance_km |-> dist]))
Trip(date, dist, place) ==
    Dict(DictOf([departure_date |-> date, distance_km |-> dist,
                 departure_place |-> place]))
UserDetails(name, designation, budget_head) ==
    Dict(DictOf([name |-> name, designation |-> designation,
                 budget_head |-> budget_head]))

Jan5 == Str(<<"0", "5", "/", "0", "1", "/", "2", "0", "2", "4">>)
Jan5Short == Str(<<"5", "/", "1", "/", "2", "0", "2", "4">>)
Dec20 == Str(<<"2", "0", "/", "1", "2", "/", "2", "0", "2", "3">>)
Feb31 == Str(<<"3", "1", "/", "0", "2", "/", "2", "0", "2", "4">>)
IsoJan5 == Str(<<"2", "0", "2", "4", "-", "0", "1", "-", "0", "5">>)
Sys1 == Str(<<"21781756377236">>)
Sys2 == Str(<<"31781756377299">>)

\* replies that take every branch of the loop body: no JSON, an empty
\* object, a list, a type the code does not know, no type at all, a salary
\* slip, a map, and tour approvals that are well-formed, that hold user
\* details that are no object, and that hold a trip that is no object
CoreReplies ==
    {Invalid, Dict(<<>>), List(<<MapData(Num(142))>>),
     Dict(DictOf([type |-> Str(<<"ticket">>)])),
     MapData(Num(142)), Salary(Num(50000)),
     TourApproval(Sys1, Absent, List(<<Trip(Jan5, Absent, Absent)>>)),
     TourApproval(Sys1, Null, List(<<Trip(Jan5, Absent, Absent)>>)),
     TourApproval(Sys1, Absent,
                  List(<<Trip(Jan5, Absent, Absent), Str(<<"n/a">>)>>))}

\* tour approvals with and without a system number and with every shape of
\* 'trips'
ShapeReplies ==
    {TourApproval(sys, Absent, trips) :
        sys \in {Absent, Null, Sys1, Sys2},
        trips \in {Absent, Null, List(<<>>), Str(<<"n/a">>),
                   Dict(Trip(Dec20, Absent, Absent).v),
                   List(<<Trip(Jan5, Absent, Absent)>>),
                   List(<<Trip(Jan5, Absent, Absent), Trip(Dec20, Num(85), Absent)>>)}}

Replies == CoreReplies \cup ShapeReplies \cup {Dict(DictOf([distance_km |-> Num(142)]))}

Next == GenerateContent(Replies) \/ Steps

Spec == Init /\ [][Next]_vars

(* the merge: trips and maps with every kind of distance *)
TripDistances ==
    {Absent, Null, Str(<<>>), Str(<<" ">>), Num(0), Str(<<"0">>), Flt(0),
     Num(85), Str(<<"8", "5">>)}
MapDistances == {Absent, Null, Str(<<>>), Num(142), Str(<<"9", "6">>)}

MergeReplies ==
    CoreReplies
    \cup {MapData(x) : x \in MapDistances}
    \cup {TourApproval(Sys2, Absent, List(<<Trip(Dec20, x, Absent)>>)) :
             x \in TripDistances}
    \cup {TourApproval(Sys1, Absent,
                       List(<<Trip(Jan5, x, Absent), Trip(Dec20, y, Absent)>>)) :
             x \in {Absent, Num(85)}, y \in {Absent, Num(85)}}

NextMerge == GenerateContent(MergeReplies) \/ Steps

SpecMerge == Init /\ [][NextMerge]_vars

(* the sort: trips with every kind of departure date *)
TripDates ==
    {Absent, Str(<<>>), Jan5, Jan5Short, Dec20, Feb31, IsoJan5,
     Num(20240105)}

SortReplies ==
    CoreReplies
    \cup {TourApproval(Sys2, Absent, List(<<Trip(x, Absent, Absent)>>)) :
             x \in TripDates}
    \cup {TourApproval(Sys1, Absent,
                       List(<<Trip(x, Absent, Absent), Trip(y, Absent, Absent)>>)) :
             x \in {Jan5, Dec20}, y \in {Jan5, Dec20}}

NextSort == GenerateContent(SortReplies) \/ Steps

SpecSort == Init /\ [][NextSort]_vars

(* ============================== the claims ============================= *)
\* extraction order of two trip objects: earlier file, or earlier in a file
OidLess(a, b) == a[1] < b[1] \/ (a[1] = b[1] /\ a[2] < b[2])

\* extract_doc_data is running: between its entry and its return
InExtract == pc \in {"upload", "generate", "except", "finally"}

\* C5: the temporary file of a call of extract_doc_data exists only while
\* the call runs: once the call has returned, by the success path or by the
\* except block, and ever after, no temporary file of the run is on disk;
\* while a call runs, the only temporary file is that of the current file.
C5_TempFileRemoved ==
    /\ ~InExtract => tmp_files = {}
    /\ InExtract => tmp_files = {idx}

\* C5's case: the call for the second file has returned by way of the
\* except block, after a first file that was handled
C5_Witness ==
    /\ pc = "handle" /\ idx = 2 /\ data = Null
    /\ \E j \in 1..Len(ui) : ui[j] = Msg("error", 2)
    /\ tmp_files = {}

\* the approval record of file f
ApprovalOf(f) == CHOOSE a \in approvals : a.file = f

\* how many trips the tour approvals of files 1..f brought
RECURSIVE TripsUpTo(_)
TripsUpTo(f) ==
    IF f = 0 THEN 0
    ELSE TripsUpTo(f - 1)
         + (IF \E a \in approvals : a.file = f THEN ApprovalOf(f).n ELSE 0)

FileLevelFailure(x) ==
    \/ x.t # "dict"
    \/ /\ x.t = "dict"
       /\ \/ "type" \notin DOMAIN x.v
          \/ /\ PyEq(Get(x.v, "type", Null), T_tour_approval)
             /\ UserDetailsRaises(x.v) \/ TripsRaise(x.v)

\* C4, as claimed: a file whose extraction is a file-level failure is
\* skipped, the loop goes on to the next file, and the trip list, the map
\* list and the employee record are left as they were.
C4_FailedFileSkipped ==
    [][(pc = "handle" /\ FileLevelFailure(data)) =>
          /\ pc' = "loop" /\ idx' = idx + 1
          /\ UNCHANGED <<tour_entries, map_entries, user_info>>]_vars

\* the run has ended: by its last statement or by an uncaught exception
Ended == pc \in {"done", "aborted"}

\* C10, as claimed: a run that has ended has put out a document exactly
\* when a key was entered and at least one trip was accumulated; without a
\* key no file was extracted; with a key and no trip the warning is shown.
C10_DocumentIffKeyAndTrips ==
    Ended =>
       /\ (doc # <<>>) <=> (api_key # <<>> /\ tour_entries # <<>>)
       /\ api_key = <<>> => (idx = 0 /\ ui = <<Msg("key_error", 0)>>)
       /\ (api_key # <<>> /\ tour_entries = <<>>) =>
             (doc = <<>> /\ ui[Len(ui)] = Msg("warning", 0))

(* the employee record: salary slips and user details with every kind of
   field, and trips with fields left out or null *)
NameA == Str(<<"A. Patel">>)
NameB == Str(<<"B. Shah">>)

UserReplies ==
    CoreReplies
    \cup {Salary(p) : p \in {Absent, Null, Num(60000)}}
    \cup {TourApproval(Sys2, UserDetails(n, g, b),
                       List(<<Trip(Dec20, Num(85), Absent)>>)) :
             n \in {Absent, Null, Str(<<>>), NameA, NameB},
             g \in {Absent, Null, Str(<<"Professor">>)},
             b \in {Absent, Str(<<"303/1111">>)}}
    \cup {TourApproval(Sys2, Absent, List(<<Trip(x, y, z)>>)) :
             x \in {Absent, Null, Jan5},
             y \in {Absent, Null, Num(85)},
             z \in {Absent, Null, Str(<<"Surat">>)}}

NextUser == GenerateContent(UserReplies) \/ Steps

SpecUser == Init /\ [][NextUser]_vars

\* C6, as claimed: a field of the employee record, once set to a value,
\* keeps that value through every later step of the run.
C6_EmployeeRecordImmutable ==
    [][\A k \in DOMAIN user_info :
          Truthy(user_info[k]) =>
             (k \in DOMAIN user_info' /\ user_info'[k] = user_info[k])]_vars

\* the fields of the header block and of a row, with the renderer's
\* defaults
HeaderDefaults ==
    [designation |-> <<"Associate Professor">>,
     name |-> <<"Vaibhav Kumar Kanubhai Chaudhari">>,
     basic_pay |-> <<"N/A">>,
     budget_head |-> <<"303/2092">>]
RowDefaults ==
    [departure_place |-> <<"NAU, Navsari">>, departure_date |-> <<>>,
     departure_time |-> <<>>, arrival_place |-> <<>>, arrival_date |-> <<>>,
     arrival_time |-> <<>>, mode_of_journey |-> <<"Private Vehicle">>,
     distance_km |-> <<>>, purpose |-> <<>>]

\* field k of dict d is left out or null
NoValue(d, k) == k \notin DOMAIN d \/ d[k].t = "null"

\* C8, as claimed: in a rendered document every field that the employee
\* record or a trip lacks, by a key left out or by a null, shows the
\* renderer's default, never the text of a null.
C8_AbsentFieldsShowDefaults ==
    doc # <<>> =>
       /\ \A k \in DOMAIN HeaderDefaults :
             NoValue(user_info, k) => doc[1][k] = HeaderDefaults[k]
       /\ \A j \in 1..Len(tour_entries) : \A k \in DOMAIN RowDefaults :
             NoValue(tour_entries[j].d, k) => doc[1].rows[j][k] = RowDefaults[k]

\* the distance of trip dict d is missing in the claim's sense: no key, an
\* empty text, 0 or None
ClaimedMissing(d) ==
    \/ "distance_km" \notin DOMAIN d
    \/ PyEq(d["distance_km"], Null)
    \/ PyEq(d["distance_km"], Str(<<>>))
    \/ PyEq(d["distance_km"], Num(0))

\* x shows as something: it is no null and its text is not blank
NonBlank(x) == x.t # "null" /\ Strip(PyStr(x)) # <<>>

\* C1, as claimed: when the merge loop runs with a map record in the list,
\* every trip whose distance was missing ends it with a distance that is
\* not blank and is the one the first map record gives.
C1_MissingDistanceBackfilled ==
    [][(pc = "loop" /\ pc' = "sort" /\ map_entries # <<>>) =>
          \A j \in 1..Len(tour_entries) :
             ClaimedMissing(tour_entries[j].d) =>
                /\ "distance_km" \in DOMAIN tour_entries'[j].d
                /\ NonBlank(tour_entries'[j].d["distance_km"])
                /\ tour_entries'[j].d["distance_km"] =
                      Get(map_entries[1], "distance_km", Zero)]_vars

\* the distance of trip dict d is there and is not zero
PresentNonZero(d) ==
    /\ "distance_km" \in DOMAIN d
    /\ \/ d["distance_km"].t \in {"int", "float"} /\ d["distance_km"].v # 0
       \/ /\ d["distance_km"].t = "str"
          /\ Strip(d["distance_km"].v) \notin {<<>>, <<"0">>}

\* the trip object of the list q whose identity is o
TripAt(q, o) == q[CHOOSE k \in 1..Len(q) : q[k].oid = o]

\* C7: a trip object that is in the list stays in it, and no step changes
\* any field of it, but for the merge loop, which runs once and changes at
\* most the distance of a trip, and only of a trip whose distance is not
\* both present and non-zero; the sort and the rendering change no field of
\* any trip.
C7_TripFrame ==
    [][\A j \in 1..Len(tour_entries) :
          /\ \E k \in 1..Len(tour_entries') :
                tour_entries'[k].oid = tour_entries[j].oid
          /\ LET old == tour_entries[j].d
                 new == TripAt(tour_entries', tour_entries[j].oid).d
             IN  \/ new = old
                 \/ /\ pc = "loop" /\ pc' = "sort"
                    /\ ~PresentNonZero(old)
                    /\ "distance_km" \in DOMAIN new
                    /\ new = Put(old, "distance_km", new["distance_km"])]_vars

\* C7's case: a document is out for two trips that the sort has swapped,
\* one with the distance of the first map record (backfilled) and one with
\* the distance its own extraction gave
C7_Witness ==
    /\ pc = "done" /\ doc # <<>> /\ Len(tour_entries) = 2
    /\ OidLess(tour_entries[2].oid, tour_entries[1].oid)
    /\ map_entries # <<>> /\ "distance_km" \in DOMAIN map_entries[1]
    /\ PyEq(map_entries[1]["distance_km"], Str(<<"9", "6">>))
    /\ \E j, k \in 1..2 :
          /\ "distance_km" \in DOMAIN tour_entries[j].d
          /\ PyEq(tour_entries[j].d["distance_km"], Str(<<"9", "6">>))
          /\ "distance_km" \in DOMAIN tour_entries[k].d
          /\ PyEq(tour_entries[k].d["distance_km"], Num(85))

\* trip dict d has a departure date that parses as DD/MM/YYYY
Parsable(d) ==
    /\ "departure_date" \in DOMAIN d
    /\ d["departure_date"].t = "str"
    /\ Strptime(d["departure_date"].v).ok

\* the parsed departure date of a trip dict that has one
ParsedDate(d) == Strptime(d["departure_date"].v).val

\* the place of the trip object of identity o in list q
PlaceOf(q, o) == CHOOSE k \in 1..Len(q) : q[k].oid = o

\* C2: when every trip has a departure date that parses, the sort step
\* leaves a permutation of the list (the same trip objects, each once, no
\* field changed), in ascending order of the parsed date, and two trips of
\* equal date stand as they stood before the sort.
C2_StableAscendingSort ==
    [][(pc = "sort" /\ \A j \in 1..Len(tour_entries) : Parsable(tour_entries[j].d)) =>
          /\ Len(tour_entries') = Len(tour_entries)
          /\ \A j \in 1..Len(tour_entries) :
                \E k \in 1..Len(tour_entries') : tour_entries'[k] = tour_entries[j]
          /\ \A a, b \in 1..Len(tour_entries') :
                a < b =>
                   /\ ~DateLess(ParsedDate(tour_entries'[b].d),
                                ParsedDate(tour_entries'[a].d))
                   /\ ParsedDate(tour_entries'[a].d) = ParsedDate(tour_entries'[b].d)
                         => PlaceOf(tour_entries, tour_entries'[a].oid)
                               < PlaceOf(tour_entries, tour_entries'[b].oid)]_vars

\* C2's case: the sort has run on three trips that all parse: it has moved
\* a trip of a later file ahead of an earlier one, and two trips of one
\* date, written differently, stand in their extraction order
C2_Witness ==
    /\ pc = "emit" /\ Len(tour_entries) = 3
    /\ \A j \in 1..3 : Parsable(tour_entries[j].d)
    /\ OidLess(tour_entries[2].oid, tour_entries[1].oid)
    /\ ParsedDate(tour_entries[2].d) = ParsedDate(tour_entries[3].d)
    /\ tour_entries[2].d["departure_date"] # tour_entries[3].d["departure_date"]
    /\ OidLess(tour_entries[2].oid, tour_entries[3].oid)

\* trip dict d has a departure date, a text, that strptime rejects
UnparsableText(d) ==
    /\ "departure_date" \in DOMAIN d
    /\ d["departure_date"].t = "str"
    /\ ~Strptime(d["departure_date"].v).ok

\* trip dict d has a departure date that is not empty and that strptime
\* rejects, as a text that is no date or as a value that is no text
UnparsableNonEmpty(d) ==
    /\ Truthy(Get(d, "departure_date", Null))
    /\ ~Parsable(d)

\* C3, as claimed: when some trip has a departure date that does not parse
\* as DD/MM/YYYY, the sort step leaves the list exactly as it was and the
\* run goes on to render it.
C3_UnparsableKeepsOrder ==
    [][(pc = "sort" /\ \E j \in 1..Len(tour_entries) :
                          UnparsableText(tour_entries[j].d)) =>
          (tour_entries' = tour_entries /\ pc' = "emit")]_vars

\* C3, amended: when some trip has a non-empty departure date that does not
\* parse, the sort step leaves the list exactly as it was and goes on, and
\* the rendering that follows puts out a document with a row for every
\* trip, each showing the date as it was extracted, and no month line.
C3_NonEmptyUnparsableKeepsOrder ==
    [][/\ (pc = "sort" /\ \E j \in 1..Len(tour_entries) :
                             UnparsableNonEmpty(tour_entries[j].d)) =>
             (tour_entries' = tour_entries /\ pc' = "emit")
       /\ (pc = "emit" /\ \E j \in 1..Len(tour_entries) :
                             UnparsableNonEmpty(tour_entries[j].d)) =>
             /\ pc' = "done" /\ tour_entries' = tour_entries
             /\ doc' # <<>>
             /\ Len(doc'[1].rows) = Len(tour_entries)
             /\ doc'[1].month_str = <<>>
             /\ \A j \in 1..Len(tour_entries) :
                   doc'[1].rows[j].departure_date =
                      (IF "departure_date" \in DOMAIN tour_entries[j].d
                       THEN PyStr(tour_entries[j].d["departure_date"])
                       ELSE <<>>)]_vars

\* C3's case: a document is out for three trips that stand in extraction
\* order although not in date order, one of them with a date of a day that
\* does not exist and one with no date
C3_Witness ==
    /\ pc = "done" /\ doc # <<>> /\ Len(tour_entries) = 3
    /\ \A j \in 1..2 : OidLess(tour_entries[j].oid, tour_entries[j + 1].oid)
    /\ Parsable(tour_entries[1].d) /\ Parsable(tour_entries[3].d)
    /\ DateLess(ParsedDate(tour_entries[3].d), ParsedDate(tour_entries[1].d))
    /\ \E j \in 1..3 : PyEq(Get(tour_entries[j].d, "departure_date", Null), Feb31)

=============================================================================
